---- MODULE Spec2Model ----
(***************************************************************************)
(* A model of mailer.py: the Message class (recipient normalisation, MIME  *)
(* document construction, attachment encoding) and the Mailer class (the   *)
(* SMTP session that send() drives).                                       *)
(*                                                                         *)
(* Python strings that the code takes apart (the To field, file paths) are *)
(* sequences: the To field a sequence of one-character strings, a path a   *)
(* sequence of tokens among which "/" and "." are the separators.  Strings *)
(* the code only passes along (Body, Html, From, user names) are atoms.    *)
(***************************************************************************)
EXTENDS Integers, Sequences, FiniteSets, TLC

VARIABLES
    m,           \* MsgSpec, ToSpec: the Message object under test
    ser,         \* MsgSpec: the as_string calls made since m was last modified
    addrs,       \* ToSpec: the addresses typed into m._to so far (history)
    pend,        \* ToSpec: spaces typed since the last address character
    toRead,      \* ToSpec: what the last read of m.To saw and returned
    usr,         \* Mailer._usr
    pwd,         \* Mailer._pwd
    loginCalled, \* history: login() has been called on the Mailer
    pc,          \* where the running send() call is
    conn,        \* the smtplib.SMTP object of the running call
    arg,         \* the msg argument of the running send() call
    idx,         \* position in the batch of the element being handled
    staged,      \* _send: the envelope built, waiting for server.sendmail
    log,         \* history: what the running call did to the server, in order
    err,         \* the exception the call ended with ("" for none)
    firstErr,    \* history: the first exception raised inside the call
    openFiles    \* file handles opened by the current call and not closed

msgVars == <<m, ser>>
toVars == <<addrs, pend, toRead>>
mailerVars == <<usr, pwd, loginCalled, pc, conn, arg, idx, staged, log, err,
                firstErr>>
vars == <<m, ser, addrs, pend, toRead, usr, pwd, loginCalled, pc, conn, arg,
          idx, staged, log, err, firstErr, openFiles>>

\* Bounds of the model.
MaxAttach == 2      \* attach() calls on one Message
MaxBatch == 3       \* messages in one send() batch
MaxToLen == 6       \* characters of a raw To string
NumBoundaries == 2  \* distinct values the random MIME boundary token takes

\* Python's None, for the fields the code compares or tests for truth.
None == "<None>"

\* Python truth of an optional string: None and "" are false.
Truthy(x) == x # None /\ x # ""

----------------------------------------------------------------------------
\* Character strings: str.replace, str.split, str.strip, str.join.

Whitespace == {" "}

\* s.replace(old, new) for one-character old and new.
Replace(s, old, new) == [i \in 1..Len(s) |-> IF s[i] = old THEN new ELSE s[i]]

\* s.split(sep): the pieces between the occurrences of sep, empty ones kept.
RECURSIVE SplitAcc(_, _, _, _)
SplitAcc(s, sep, cur, acc) ==
    IF s = <<>> THEN Append(acc, cur)
    ELSE IF Head(s) = sep THEN SplitAcc(Tail(s), sep, <<>>, Append(acc, cur))
    ELSE SplitAcc(Tail(s), sep, Append(cur, Head(s)), acc)

Split(s, sep) == SplitAcc(s, sep, <<>>, <<>>)

RECURSIVE LStrip(_)
LStrip(s) ==
    IF s # <<>> /\ Head(s) \in Whitespace THEN LStrip(Tail(s)) ELSE s

RECURSIVE RStrip(_)
RStrip(s) ==
    IF s # <<>> /\ s[Len(s)] \in Whitespace
    THEN RStrip(SubSeq(s, 1, Len(s) - 1)) ELSE s

\* s.strip()
Strip(s) == RStrip(LStrip(s))

\* sep.join(parts)
RECURSIVE Join(_, _)
Join(parts, sep) ==
    IF parts = <<>> THEN <<>>
    ELSE IF Len(parts) = 1 THEN parts[1]
    ELSE parts[1] \o sep \o Join(Tail(parts), sep)

----------------------------------------------------------------------------
\* File paths, the files on disk, and mimetypes.guess_type.

\* The index of the last occurrence of tok in p, 0 if there is none.
LastIndex(p, tok) ==
    LET hits == {i \in 1..Len(p) : p[i] = tok}
    IN IF hits = {} THEN 0 ELSE CHOOSE i \in hits : \A j \in hits : j <= i

\* os.path.basename: what follows the last "/".
Basename(p) == SubSeq(p, LastIndex(p, "/") + 1, Len(p))

\* The extension of a file name (the token after its last "."), "" if none.
Ext(name) ==
    LET d == LastIndex(name, ".")
    IN IF d = 0 \/ d = Len(name) THEN "" ELSE name[Len(name)]

\* The file name without its last extension.
DropExt(name) ==
    LET d == LastIndex(name, ".")
    IN IF d = 0 THEN name ELSE SubSeq(name, 1, d - 1)

\* mimetypes.encodings_map and mimetypes.types_map, the entries used here.
EncodingOf(ext) ==
    CASE ext = "gz" -> "gzip"
      [] ext = "Z" -> "compress"
      [] OTHER -> None

\* A content type is the sequence <<maintype, "/", subtype>>; the empty
\* sequence stands for the None that guess_type returns for an unknown name.
NoType == <<>>

TypeOf(ext) ==
    CASE ext = "jpg" -> <<"image", "/", "jpeg">>
      [] ext = "png" -> <<"image", "/", "png">>
      [] ext = "txt" -> <<"text", "/", "plain">>
      [] ext = "mp3" -> <<"audio", "/", "mpeg">>
      [] ext = "pdf" -> <<"application", "/", "pdf">>
      [] ext = "tar" -> <<"application", "/", "x-tar">>
      [] OTHER -> NoType

\* mimetypes.guess_type(filename): (type, encoding) from the name alone.
GuessType(p) ==
    LET name == Basename(p)
        enc == EncodingOf(Ext(name))
        base == IF enc # None THEN DropExt(name) ELSE name
    IN [ctype |-> TypeOf(Ext(base)), encoding |-> enc]

OctetStream == <<"application", "/", "octet-stream">>

PhotoJpg == <<"img", "/", "photo", ".", "jpg">>
NotesTxt == <<"notes", ".", "txt">>
SongMp3 == <<"music", "/", "song", ".", "mp3">>
DocPdf == <<"doc", ".", "pdf">>
BlobXyz == <<"tmp", "/", "blob", ".", "xyz">>
LogTxtGz == <<"log", ".", "txt", ".", "gz">>
GonePng == <<"gone", ".", "png">>
BadTxt == <<"bad", ".", "txt">>

\* The paths a caller attaches.
Paths == {PhotoJpg, NotesTxt, SongMp3, DocPdf, BlobXyz, LogTxtGz, GonePng,
          BadTxt}

\* The files on disk while a Message is serialized: "ok" can be opened and
\* read, "missing" cannot be opened, "unreadable" opens and fails in read().
FileStatus(p) ==
    CASE p = GonePng -> "missing"
      [] p = BadTxt -> "unreadable"
      [] OTHER -> "ok"

\* The bytes read() returns for a readable file.
FileBytes(p) == <<"bytes-of">> \o p

----------------------------------------------------------------------------
\* The email package: MIME parts and documents.

NoFilename == <<>>

\* One MIME part.  cls is the class that built it, cte its
\* Content-Transfer-Encoding, disposition and filename its
\* Content-Disposition header (None when the header is absent).
Part(cls, ctype, charset, cte, payload) ==
    [cls |-> cls, ctype |-> ctype, charset |-> charset, cte |-> cte,
     disposition |-> None, filename |-> NoFilename, payload |-> payload]

\* The body encoding email.charset gives a text part of that charset.
BodyEncoding(charset) == IF charset = "us-ascii" THEN "7bit" ELSE "base64"

\* MIMEText(text, subtype, charset)
MIMEText(text, subtype, charset) ==
    Part("MIMEText", <<"text", "/", subtype>>, charset, BodyEncoding(charset),
         text)

\* MIMEImage(data, _subtype=subtype): base64 is its default encoder.
MIMEImage(data, subtype) ==
    Part("MIMEImage", <<"image", "/", subtype>>, None, "base64", data)

\* MIMEAudio(data, _subtype=subtype): base64 is its default encoder.
MIMEAudio(data, subtype) ==
    Part("MIMEAudio", <<"audio", "/", subtype>>, None, "base64", data)

\* MIMEBase(maintype, subtype), set_payload(data), encoders.encode_base64(msg)
MIMEBaseBase64(maintype, subtype, data) ==
    Part("MIMEBase", <<maintype, "/", subtype>>, None, "base64", data)

\* msg.add_header('Content-Disposition', 'attachment', filename=name)
AddDisposition(part, name) ==
    [part EXCEPT !.disposition = "attachment", !.filename = name]

NoHeader == [enc |-> None, text |-> None]
NoHeaders == [Subject |-> NoHeader, From |-> None, To |-> <<>>]
NoPreamble == [type |-> None, text |-> None]

\* A document: a single text part (parts empty, payload set) or a multipart
\* container.  boundary is 0 until the document is flattened.
Document(ctype, charset, payload, parts) ==
    [ctype |-> ctype, charset |-> charset, boundary |-> 0,
     headers |-> NoHeaders, preamble |-> NoPreamble, payload |-> payload,
     parts |-> parts]

NoDoc == Document(NoType, None, <<>>, <<>>)

\* MIMEMultipart(subtype): no boundary is given, so none is set yet.
MIMEMultipart(subtype) ==
    Document(<<"multipart", "/", subtype>>, None, <<>>, <<>>)

\* outer.attach(part)
Attach(outer, part) == [outer EXCEPT !.parts = Append(@, part)]

IsMultipart(doc) == doc.ctype # NoType /\ doc.ctype[1] = "multipart"

\* The tokens email.generator draws at random for a multipart boundary.
Boundaries == 1..NumBoundaries

\* msg.as_string() of the email package: a multipart document that has no
\* boundary gets one made from a random token; the text is otherwise a
\* function of the document.
Flatten(doc, token) ==
    IF IsMultipart(doc) THEN [doc EXCEPT !.boundary = token] ELSE doc

----------------------------------------------------------------------------
\* class Message

\* Subject values: a byte string (str) or a unicode object.
SubjHi == [type |-> "str", text |-> "hi"]
SubjUtf8 == [type |-> "str", text |-> "caf\\xc3\\xa9"]
SubjLatin1 == [type |-> "str", text |-> "caf\\xe9"]
SubjUnicode == [type |-> "unicode", text |-> "caf\\u00e9"]
Subjects == {SubjHi, SubjUtf8, SubjLatin1, SubjUnicode}

\* Whether the bytes of a str decode under the charset.
Decodes(text, charset) ==
    CASE charset = "utf-8" -> text \in {"hi", "caf\\xc3\\xa9"}
      [] OTHER -> text = "hi"

\* Message.__init__
MessageInit(To, From, Subject, Body, Html, attachments, charset) ==
    [attachments |-> attachments, _to |-> To, From |-> From,
     Subject |-> Subject, Body |-> Body, Html |-> Html,
     charset |-> IF Truthy(charset) THEN charset ELSE "us-ascii"]

\* A faulty variant of _get_to, for C7: the pieces are joined as they are,
\* without strip().
_get_to_unstripped(self) ==
    Join(Split(Replace(self._to, ";", ","), ","), <<",", " ">>)

\* Message._get_to
_get_to(self) ==
    LET parts == Split(Replace(self._to, ";", ","), ",")
    IN Join([i \in 1..Len(parts) |-> Strip(parts[i])], <<",", " ">>)

\* Message._set_to
_set_to(self, to) == [self EXCEPT !._to = to]

\* Message.attach
attach(self, filename) == [self EXCEPT !.attachments = Append(@, filename)]

\* Message._set_info: the headers it sets, or the exception it raises.
_set_info(self, msg) ==
    IF self.charset = "us-ascii"
    THEN [err |-> "",
          msg |-> [msg EXCEPT !.headers =
                      [Subject |-> [enc |-> "verbatim",
                                    text |-> self.Subject.text],
                       From |-> self.From, To |-> _get_to(self)]]]
    ELSE IF self.Subject.type = "unicode"
    THEN [err |-> "TypeError", msg |-> msg]
    ELSE IF ~Decodes(self.Subject.text, self.charset)
    THEN [err |-> "UnicodeDecodeError", msg |-> msg]
    ELSE [err |-> "",
          msg |-> [msg EXCEPT !.headers =
                      [Subject |-> [enc |-> self.charset,
                                    text |-> self.Subject.text],
                       From |-> self.From, To |-> _get_to(self)]]]

\* A faulty variant of _with_html, for C8: the html part is attached first.
_with_html_swapped(self) ==
    Attach(Attach(MIMEMultipart("alternative"),
                  MIMEText(<<self.Html>>, "html", self.charset)),
           MIMEText(<<self.Body>>, "plain", self.charset))

\* Message._with_html
_with_html(self) ==
    LET outer == MIMEMultipart("alternative")
        part1 == MIMEText(<<self.Body>>, "plain", self.charset)
        part2 == MIMEText(<<self.Html>>, "html", self.charset)
    IN Attach(Attach(outer, part1), part2)

\* A single-part MIMEText used as the whole document.
TextDocument(text, subtype, charset) ==
    Document(<<"text", "/", subtype>>, charset, text, <<>>)

\* The result of a call on a Message is the record [out, err, leaked, self]:
\* the string returned (NoDoc when it raises), the exception raised ("" for
\* none), the file handles left open, and the Message as the call leaves it.
Raised(self, e, leaked) ==
    [out |-> NoDoc, err |-> e, leaked |-> leaked, self |-> self]

\* A faulty variant of Returned, for C6: the attachment list is consumed
\* while the document is built.
Returned_ConsumesAttachments(self, doc) ==
    [out |-> doc, err |-> "", leaked |-> 0,
     self |-> [self EXCEPT !.attachments = <<>>]]

Returned(self, doc) ==
    [out |-> doc, err |-> "", leaked |-> 0, self |-> self]

\* Message._plaintext, from the call of _set_info on: info is its outcome.
PlaintextInfo(self, token, info) ==
    IF info.err # "" THEN Raised(self, info.err, 0)
    ELSE Returned(self, Flatten(info.msg, token))

\* Message._plaintext
_plaintext(self, token) ==
    PlaintextInfo(self, token,
                  _set_info(self,
                            IF ~Truthy(self.Html)
                            THEN TextDocument(<<self.Body>>, "plain",
                                              self.charset)
                            ELSE _with_html(self)))

\* A faulty variant of ContentType, for C9: the encoding that guess_type
\* reports is ignored.
ContentType_IgnoresEncoding(guess) ==
    IF guess.ctype = NoType THEN OctetStream ELSE guess.ctype

\* The content type _add_attachment settles on for a guess.
ContentType(guess) ==
    IF guess.ctype = NoType \/ guess.encoding # None
    THEN OctetStream ELSE guess.ctype

\* The part _add_attachment builds for a main type, a sub-type and the bytes.
TypedPart(maintype, subtype, data) ==
    CASE maintype = "text" -> MIMEText(data, subtype, "us-ascii")
      [] maintype = "image" -> MIMEImage(data, subtype)
      [] maintype = "audio" -> MIMEAudio(data, subtype)
      [] OTHER -> MIMEBaseBase64(maintype, subtype, data)

\* maintype, subtype = ctype.split('/', 1), then the part for them.
SplitPart(split, data) == TypedPart(split[1][1], split[2][1], data)

\* A faulty variant of _add_attachment, for C4: a file that cannot be opened
\* is left out and the message is built without it.
_add_attachment_skips_missing(outer, filename) ==
    CASE FileStatus(filename) = "missing" ->
           [outer |-> outer, err |-> "", leaked |-> 0]
      [] FileStatus(filename) = "unreadable" ->
           [outer |-> outer, err |-> "IOError", leaked |-> 1]
      [] OTHER ->
           [outer |->
               Attach(outer,
                      AddDisposition(
                          SplitPart(Split(ContentType(GuessType(filename)),
                                          "/"),
                                    FileBytes(filename)),
                          Basename(filename))),
            err |-> "", leaked |-> 0]

\* Message._add_attachment: outer with the part attached, or the exception,
\* and the number of file handles it leaves open.
_add_attachment(outer, filename) ==
    CASE FileStatus(filename) = "missing" ->
           \* open() raises: no handle was opened
           [outer |-> outer, err |-> "IOError", leaked |-> 0]
      [] FileStatus(filename) = "unreadable" ->
           \* fp.read() raises: fp.close() is not reached
           [outer |-> outer, err |-> "IOError", leaked |-> 1]
      [] OTHER ->
           [outer |->
               Attach(outer,
                      AddDisposition(
                          SplitPart(Split(ContentType(GuessType(filename)),
                                          "/"),
                                    FileBytes(filename)),
                          Basename(filename))),
            err |-> "", leaked |-> 0]

\* The for loop of Message._multipart over self.attachments[i..]: r is the
\* outcome of _add_attachment for attachment i.
RECURSIVE AddAttachments(_, _, _)
AttachmentAdded(r, attachments, i) ==
    IF r.err # "" THEN r ELSE AddAttachments(r.outer, attachments, i + 1)

AddAttachments(outer, attachments, i) ==
    IF i > Len(attachments) THEN [outer |-> outer, err |-> "", leaked |-> 0]
    ELSE AttachmentAdded(_add_attachment(outer, attachments[i]),
                         attachments, i)

\* Message._multipart, after the loop: r is the loop's outcome.
MultipartLoop(self, token, r) ==
    IF r.err # "" THEN Raised(self, r.err, r.leaked)
    ELSE Returned(self, Flatten(r.outer, token))

\* Message._multipart, from the call of _set_info on.
MultipartInfo(self, token, info) ==
    IF info.err # "" THEN Raised(self, info.err, 0)
    ELSE MultipartLoop(self, token,
                       AddAttachments(
                           [info.msg EXCEPT !.preamble = self.Subject],
                           self.attachments, 1))

\* Message._multipart
_multipart(self, token) ==
    MultipartInfo(self, token,
                  _set_info(self,
                            Attach(MIMEMultipart("mixed"),
                                   MIMEText(<<self.Body>>, "plain",
                                            self.charset))))

\* Message.as_string
as_string(self, token) ==
    IF self.attachments = <<>> THEN _plaintext(self, token)
    ELSE _multipart(self, token)

----------------------------------------------------------------------------
\* The state every specification starts from, part by part.

RawAB == <<" ", "a", ";", "b">>

NotRead == [done |-> FALSE, raw |-> <<>>, val |-> <<>>]

Htmls == {None, "", "<b>hello</b>"}

NoArg == [kind |-> "none", items |-> <<>>]
NoEnvelope == [me |-> None, you |-> <<>>, ctype |-> NoType]

MsgIdle ==
    /\ m = MessageInit(<<>>, "me@x", SubjHi, "hello", None, <<>>, None)
    /\ ser = <<>>

ToIdle ==
    /\ addrs = << <<>> >>
    /\ pend = 0
    /\ toRead = NotRead

MailerIdle ==
    /\ usr = None
    /\ pwd = None
    /\ loginCalled = FALSE
    /\ pc = "idle"
    /\ conn = "none"
    /\ arg = NoArg
    /\ idx = 0
    /\ staged = NoEnvelope
    /\ log = <<>>
    /\ err = ""
    /\ firstErr = ""

----------------------------------------------------------------------------
\* MsgSpec: a Message is constructed, files are attached to it, and it is
\* serialized, up to twice between two modifications.

MsgInit ==
    /\ m \in {MessageInit(RawAB, "me@x", subj, "hello", html, <<>>, cs) :
                subj \in Subjects, html \in Htmls, cs \in {None, "utf-8"}}
    /\ ser = <<>>
    /\ openFiles = 0
    /\ ToIdle
    /\ MailerIdle

\* message.attach(filename)
DoAttach(filename) ==
    /\ Len(m.attachments) < MaxAttach
    /\ m' = attach(m, filename)
    /\ ser' = <<>>
    /\ openFiles' = 0
    /\ UNCHANGED <<toVars, mailerVars>>

\* message.as_string()
DoAsString(token) ==
    /\ Len(ser) < 2
    /\ \E r \in {as_string(m, token)} :
          /\ m' = r.self
          /\ ser' = Append(ser, [msg |-> m, out |-> r.out, err |-> r.err])
          /\ openFiles' = r.leaked
    /\ UNCHANGED <<toVars, mailerVars>>

MsgNext ==
    \/ \E filename \in Paths : DoAttach(filename)
    \/ \E token \in Boundaries : DoAsString(token)

MsgSpec == MsgInit /\ [][MsgNext]_vars

----------------------------------------------------------------------------
\* ToSpec: a raw recipient string is set on a Message, one character longer
\* each time, and the To property is read.  addrs and pend record what was
\* typed: the addresses in order (the last one still being typed) and the
\* spaces typed since the last character of an address.

AddrChars == {"a", "b"}
Separators == {",", ";"}

ToInit ==
    /\ m = MessageInit(<<>>, "me@x", SubjHi, "hello", None, <<>>, None)
    /\ ser = <<>>
    /\ openFiles = 0
    /\ ToIdle
    /\ MailerIdle

Spaces(n) == [i \in 1..n |-> " "]

\* message.To = raw + c, c a character of an address
TypeAddrChar(c) ==
    /\ Len(m._to) < MaxToLen
    /\ m' = _set_to(m, Append(m._to, c))
    /\ LET cur == addrs[Len(addrs)]
       IN addrs' = [addrs EXCEPT ![Len(addrs)] =
                       IF cur = <<>> THEN <<c>> ELSE cur \o Spaces(pend) \o <<c>>]
    /\ pend' = 0
    /\ toRead' = NotRead
    /\ UNCHANGED <<ser, openFiles, mailerVars>>

\* message.To = raw + " "
TypeSpace ==
    /\ Len(m._to) < MaxToLen
    /\ m' = _set_to(m, Append(m._to, " "))
    /\ pend' = IF addrs[Len(addrs)] = <<>> THEN 0 ELSE pend + 1
    /\ toRead' = NotRead
    /\ UNCHANGED <<addrs, ser, openFiles, mailerVars>>

\* message.To = raw + sep, after a non-empty address
TypeSep(sep) ==
    /\ Len(m._to) < MaxToLen
    /\ addrs[Len(addrs)] # <<>>
    /\ m' = _set_to(m, Append(m._to, sep))
    /\ addrs' = Append(addrs, <<>>)
    /\ pend' = 0
    /\ toRead' = NotRead
    /\ UNCHANGED <<ser, openFiles, mailerVars>>

\* message.To (read)
ReadTo ==
    /\ toRead' = [done |-> TRUE, raw |-> m._to, val |-> _get_to(m)]
    /\ UNCHANGED <<m, addrs, pend, ser, openFiles, mailerVars>>

ToNext ==
    \/ \E c \in AddrChars : TypeAddrChar(c)
    \/ TypeSpace
    \/ \E sep \in Separators : TypeSep(sep)
    \/ ReadTo

ToSpec == ToInit /\ [][ToNext]_vars

----------------------------------------------------------------------------
\* class Mailer

\* The Message objects callers pass to send.
MsgPlain == MessageInit(RawAB, "me@x", SubjHi, "hello", None, <<>>, None)
MsgHtml ==
    MessageInit(RawAB, "me@x", SubjHi, "hello", "<b>hello</b>", <<>>, None)
MsgPhoto ==
    MessageInit(RawAB, "me@x", SubjHi, "hello", None, <<PhotoJpg>>, None)
MsgGone ==
    MessageInit(RawAB, "me@x", SubjHi, "hello", None, <<NotesTxt, GonePng>>,
                None)
MsgUnicode ==
    MessageInit(RawAB, "me@x", SubjUnicode, "hello", None, <<>>, "utf-8")

MsgBad ==
    MessageInit(RawAB, "me@x", SubjHi, "hello", None, <<BadTxt>>, None)

Msgs == <<MsgPlain, MsgHtml, MsgPhoto, MsgGone, MsgUnicode, MsgBad>>

\* The values of send's msg argument: one Message, or a list of Messages.
Single(i) == [kind |-> "single", items |-> <<i>>]
Batch(items) == [kind |-> "batch", items |-> items]
Args ==
    {Single(i) : i \in DOMAIN Msgs} \cup
    {Batch(items) : items \in UNION {[1..n -> DOMAIN Msgs] : n \in 0..MaxBatch}}

\* The values login is called with.
UserNames == {"", "user"}
Passwords == {"", "secret"}

\* One entry of log: what was done, for which position of the batch (0 when
\* it is not about an element), and whether it went through.
Ev(op, k, ok) == [op |-> op, k |-> k, ok |-> ok]

\* Mailer.login
login(u, p) == [usr |-> u, pwd |-> p]

\* The condition of send under which it calls server.login.
Authenticates(u, p) == Truthy(u) /\ Truthy(p)

\* Whether len(msg) succeeds: a list has a length, a Message has none.
HasLen(a) == a.kind = "batch"

\* Whether msg.From can be read: a Message has the attribute, a list has not.
HasFrom(a) == a.kind = "single"

\* Mailer._send, up to the call of server.sendmail: the envelope.
Envelope(msg) ==
    [me |-> msg.From,
     you |-> [i \in 1..Len(Split(_get_to(msg), ",")) |->
                 Strip(Split(_get_to(msg), ",")[i])]]

\* A faulty variant of AfterError, for C2: an exception raised for an element
\* of a batch is swallowed and the loop goes on with the next element.
AfterError_Continues(inTry, e, i) ==
    IF inTry THEN [pc |-> "loop", idx |-> i + 1]
    ELSE [pc |-> "raised", idx |-> i]

\* Where send goes when handling an element raises e: inside the try block a
\* TypeError is caught by the except clause, anything else ends the call.
AfterError(inTry, e, i) ==
    IF inTry /\ e = "TypeError" THEN [pc |-> "except", idx |-> i]
    ELSE [pc |-> "raised", idx |-> i]

\* Where send goes when server.sendmail returns for element i.
AfterSent(inTry, i) ==
    IF inTry THEN [pc |-> "loop", idx |-> i + 1] ELSE [pc |-> "quit", idx |-> i]

Init ==
    /\ MsgIdle
    /\ ToIdle
    /\ MailerIdle
    /\ openFiles = 0

\* mailer.login(u, p)
Login(u, p) ==
    /\ pc = "idle"
    /\ usr' = login(u, p).usr
    /\ pwd' = login(u, p).pwd
    /\ loginCalled' = TRUE
    /\ UNCHANGED <<pc, conn, arg, idx, staged, log, err, firstErr, openFiles,
                   msgVars, toVars>>

\* mailer.send(a), up to server = smtplib.SMTP(self.host)
Send(a) ==
    /\ pc = "idle"
    /\ arg' = a
    /\ \/ /\ conn' = "open"
          /\ log' = <<Ev("connect", 0, TRUE)>>
          /\ pc' = "login"
          /\ UNCHANGED err
       \/ /\ conn' = "none"
          /\ log' = <<Ev("connect", 0, FALSE)>>
          /\ pc' = "raised"
          /\ err' = "socket.error"
    /\ UNCHANGED <<usr, pwd, loginCalled, idx, staged, firstErr, openFiles,
                   msgVars, toVars>>

\* if self._usr and self._pwd: server.login(self._usr, self._pwd)
Authenticate ==
    /\ pc = "login"
    /\ IF Authenticates(usr, pwd)
       THEN \/ /\ log' = Append(log, Ev("login", 0, TRUE))
               /\ pc' = "len"
               /\ UNCHANGED err
            \/ /\ log' = Append(log, Ev("login", 0, FALSE))
               /\ pc' = "raised"
               /\ err' = "SMTPAuthenticationError"
       ELSE /\ pc' = "len"
            /\ UNCHANGED <<log, err>>
    /\ UNCHANGED <<usr, pwd, loginCalled, conn, arg, idx, staged, firstErr,
                   openFiles, msgVars, toVars>>

\* num_msgs = len(msg)
LenOf ==
    /\ pc = "len"
    /\ IF HasLen(arg) THEN pc' = "loop" /\ idx' = 1
       ELSE pc' = "except" /\ idx' = 0
    /\ UNCHANGED <<usr, pwd, loginCalled, conn, arg, staged, log, err,
                   firstErr, openFiles, msgVars, toVars>>

\* for m in msg: the sequence is exhausted
LoopEnd ==
    /\ pc = "loop"
    /\ idx > Len(arg.items)
    /\ pc' = "quit"
    /\ UNCHANGED <<usr, pwd, loginCalled, conn, arg, idx, staged, log, err,
                   firstErr, openFiles, msgVars, toVars>>

\* except TypeError: self._send(server, msg)
Except ==
    /\ pc = "except"
    /\ IF HasFrom(arg)
       THEN /\ pc' = "single"
            /\ idx' = 1
            /\ UNCHANGED <<log, err, firstErr>>
       ELSE /\ pc' = "raised"
            /\ err' = "AttributeError"
            /\ firstErr' = IF firstErr = "" THEN "AttributeError" ELSE firstErr
            /\ log' = Append(log, Ev("send-list-as-message", 0, FALSE))
            /\ UNCHANGED idx
    /\ UNCHANGED <<usr, pwd, loginCalled, conn, arg, staged, openFiles,
                   msgVars, toVars>>

\* Mailer._send for the element at idx, up to the call of server.sendmail:
\* msg.From, msg.To and msg.as_string() are evaluated.
Serialize(token) ==
    /\ \/ pc = "loop" /\ idx <= Len(arg.items)
       \/ pc = "single"
    /\ \E r \in {as_string(Msgs[arg.items[idx]], token)} :
          /\ openFiles' = openFiles + r.leaked
          /\ log' = Append(log, Ev("serialize", idx, r.err = ""))
          /\ IF r.err = ""
             THEN /\ staged' = [me |-> Envelope(r.self).me,
                                you |-> Envelope(r.self).you,
                                ctype |-> r.out.ctype]
                  /\ pc' = "sendmail"
                  /\ UNCHANGED <<idx, err, firstErr>>
             ELSE /\ pc' = AfterError(HasLen(arg), r.err, idx).pc
                  /\ idx' = AfterError(HasLen(arg), r.err, idx).idx
                  /\ err' = IF pc' = "raised" THEN r.err ELSE err
                  /\ firstErr' = IF firstErr = "" THEN r.err ELSE firstErr
                  /\ UNCHANGED staged
    /\ UNCHANGED <<usr, pwd, loginCalled, conn, arg, msgVars, toVars>>

\* server.sendmail(me, you, msg.as_string()) for the element at idx
Sendmail ==
    /\ pc = "sendmail"
    /\ \/ /\ log' = Append(log, Ev("sendmail", idx, TRUE))
          /\ pc' = AfterSent(HasLen(arg), idx).pc
          /\ idx' = AfterSent(HasLen(arg), idx).idx
          /\ UNCHANGED <<err, firstErr>>
       \/ /\ log' = Append(log, Ev("sendmail", idx, FALSE))
          /\ pc' = AfterError(HasLen(arg), "SMTPRecipientsRefused", idx).pc
          /\ idx' = AfterError(HasLen(arg), "SMTPRecipientsRefused", idx).idx
          /\ err' = IF pc' = "raised" THEN "SMTPRecipientsRefused" ELSE err
          /\ firstErr' = IF firstErr = "" THEN "SMTPRecipientsRefused"
                         ELSE firstErr
    /\ staged' = NoEnvelope
    /\ UNCHANGED <<usr, pwd, loginCalled, conn, arg, openFiles, msgVars,
                   toVars>>

\* server.quit()
Quit ==
    /\ pc = "quit"
    /\ conn' = "closed"
    /\ log' = Append(log, Ev("quit", 0, TRUE))
    /\ pc' = "done"
    /\ UNCHANGED <<usr, pwd, loginCalled, arg, idx, staged, err, firstErr,
                   openFiles, msgVars, toVars>>

\* send has returned or raised; the caller goes on with the same Mailer.
Return ==
    /\ pc \in {"done", "raised"}
    /\ pc' = "idle"
    /\ conn' = "none"
    /\ arg' = NoArg
    /\ idx' = 0
    /\ staged' = NoEnvelope
    /\ log' = <<>>
    /\ err' = ""
    /\ firstErr' = ""
    /\ openFiles' = 0
    /\ UNCHANGED <<usr, pwd, loginCalled, msgVars, toVars>>

Next ==
    \/ \E u \in UserNames, p \in Passwords : Login(u, p)
    \/ \E a \in Args : Send(a)
    \/ Authenticate
    \/ LenOf
    \/ LoopEnd
    \/ Except
    \/ \E token \in Boundaries : Serialize(token)
    \/ Sendmail
    \/ Quit
    \/ Return

Spec == Init /\ [][Next]_vars

----------------------------------------------------------------------------
\* Properties of Mailer.send (specification Spec).

Range(f) == {f[i] : i \in DOMAIN f}

\* The entries of log of one kind, in order.
Events(op) == SelectSeq(log, LAMBDA e : e.op = op)

\* The positions in log of the entries of one kind.
Where(op) == {j \in DOMAIN log : log[j].op = op}

Ended == pc \in {"done", "raised"}

\* The call is past the place where send decides about server.login.
PastLogin ==
    pc \in {"len", "loop", "single", "sendmail", "except", "quit", "done"}

\* C1: every send that opened a connection has closed it when the call has
\* returned or raised; send never ends with its connection still open.
C1_ClosedWhenEnded == Ended => conn # "open"

\* C2: the messages of a batch are submitted in the order of the sequence,
\* each at most once; a failed submission is the last one made (no retry,
\* nothing after it), the ones before it were each submitted once, and the
\* call ends with an error; a call that returns has submitted them all.
C2_BatchOrder ==
    arg.kind = "batch" =>
        /\ \A j \in DOMAIN Events("sendmail") : Events("sendmail")[j].k = j
        /\ \A j \in DOMAIN Events("sendmail") :
              j < Len(Events("sendmail")) => Events("sendmail")[j].ok
        /\ \A j \in DOMAIN Events("sendmail") :
              ~Events("sendmail")[j].ok => pc = "raised" /\ err # ""
        /\ firstErr # "" => pc \in {"except", "raised"}
        /\ pc = "done" =>
              /\ Len(Events("sendmail")) = Len(arg.items)
              /\ \A j \in DOMAIN Events("sendmail") : Events("sendmail")[j].ok

\* C2 witness: a batch of three whose second submission failed.
C2_Witness ==
    /\ arg.kind = "batch"
    /\ Len(arg.items) = 3
    /\ pc = "raised"
    /\ Len(Events("sendmail")) = 2
    /\ Events("sendmail")[1].ok
    /\ ~Events("sendmail")[2].ok

\* C3: login only records the credentials; in a later send the server login
\* happens whatever the recorded values are, after the connection is opened
\* and before anything is submitted; a rejected login submits nothing; and
\* without a call of login there is no server login.
C3_LoginWheneverRecorded ==
    /\ pc = "idle" => conn = "none"
    /\ loginCalled /\ PastLogin => Where("login") # {}
    /\ ~loginCalled => Where("login") = {}
    /\ \A j \in Where("login") :
          /\ \E c \in Where("connect") : c < j
          /\ \A k \in Where("serialize") \cup Where("sendmail") : j < k
          /\ ~log[j].ok => Where("sendmail") = {}

\* A message one of whose attachments cannot be opened or cannot be read.
Unreadable(msg) ==
    \E i \in DOMAIN msg.attachments :
        FileStatus(msg.attachments[i]) \in {"missing", "unreadable"}

\* C4: a message with an attachment that cannot be opened or read does not
\* serialize and is never submitted; a submission directly follows the
\* completed serialization of the same element; in a batch the elements
\* before the failed one were submitted and none after it is attempted.
C4_NoPartialDelivery ==
    /\ \A k \in DOMAIN arg.items :
          Unreadable(Msgs[arg.items[k]]) =>
              /\ \A token \in Boundaries :
                    /\ as_string(Msgs[arg.items[k]], token).err # ""
                    /\ as_string(Msgs[arg.items[k]], token).out = NoDoc
              /\ \A j \in Where("sendmail") : log[j].k # k
    /\ \A j \in Where("sendmail") :
          j > 1 /\ log[j - 1] = Ev("serialize", log[j].k, TRUE)
    /\ \A j \in Where("serialize") :
          ~log[j].ok =>
              /\ \A i \in DOMAIN log : log[i].k <= log[j].k
              /\ arg.kind = "batch" =>
                    /\ Len(Events("sendmail")) = log[j].k - 1
                    /\ \A i \in DOMAIN Events("sendmail") :
                          Events("sendmail")[i] = Ev("sendmail", i, TRUE)

\* C4 witness: a batch whose second message has an unreadable attachment;
\* the first was submitted and the call has raised.
C4_Witness ==
    /\ arg.kind = "batch"
    /\ Len(arg.items) = 3
    /\ Unreadable(Msgs[arg.items[2]])
    /\ pc = "raised"
    /\ err = "IOError"
    /\ Events("sendmail") = <<Ev("sendmail", 1, TRUE)>>
    /\ Ev("serialize", 2, FALSE) \in Range(log)

\* C10: a batch is never handled as a single message, and a failure raised
\* while an element of a batch is handled is the failure send ends with.
C10_FailureSurfaced ==
    /\ Where("send-list-as-message") = {}
    /\ pc = "raised" /\ firstErr # "" => err = firstErr
    /\ HasLen(arg) /\ pc = "done" =>
          Events("sendmail") =
              [j \in 1..Len(arg.items) |-> Ev("sendmail", j, TRUE)]

----------------------------------------------------------------------------
\* Properties of Message.as_string (specification MsgSpec).

\* C5: no file handle opened during serialization stays open once
\* as_string has returned or raised.
C5_HandlesClosed == ser # <<>> => openFiles = 0

\* C6: two calls of as_string on an unmodified Message return the same
\* string, and as_string leaves every field of the Message unchanged.
C6_SameString ==
    /\ \A i \in DOMAIN ser : ser[i].msg = m
    /\ Len(ser) = 2 => ser[1].out = ser[2].out /\ ser[1].err = ser[2].err

\* The document with its boundary left out.
SansBoundary(doc) == [doc EXCEPT !.boundary = 0]

\* C6 as amended: two calls on an unmodified Message raise the same error or
\* return documents that are equal except for the multipart boundary, which
\* is drawn anew by each call; a single-part document is the same string
\* both times; as_string leaves every field of the Message unchanged.
C6_SameUpToBoundary ==
    /\ \A i \in DOMAIN ser : ser[i].msg = m
    /\ Len(ser) = 2 =>
          /\ ser[1].err = ser[2].err
          /\ SansBoundary(ser[1].out) = SansBoundary(ser[2].out)
          /\ ~IsMultipart(ser[1].out) => ser[1].out = ser[2].out

\* C6 witness: a multipart/mixed Message serialized twice, the two results
\* carrying different boundaries.
C6_Witness ==
    /\ Len(ser) = 2
    /\ m.attachments # <<>>
    /\ ser[1].err = ""
    /\ ser[1].out.boundary # ser[2].out.boundary

TextPlain == <<"text", "/", "plain">>
TextHtml == <<"text", "/", "html">>

\* C8: the shape of the document follows from Html and the attachment list:
\* single-part text/plain; multipart/alternative of text/plain then
\* text/html; or multipart/mixed of the plain body then one part per
\* attachment in the order of the list, without the Html; From, To
\* (normalized) and Subject are set in each.
C8_Shape ==
    \A i \in DOMAIN ser :
        ser[i].err = "" =>
            /\ ser[i].out.headers.From = ser[i].msg.From
            /\ ser[i].out.headers.To = <<"a", ",", " ", "b">>
            /\ ser[i].out.headers.Subject.text = ser[i].msg.Subject.text
            /\ ser[i].out.headers.Subject.enc # None
            /\ ser[i].msg.attachments = <<>>
                   /\ ser[i].msg.Html \in {None, ""} =>
                  /\ ser[i].out.ctype = TextPlain
                  /\ ser[i].out.parts = <<>>
                  /\ ser[i].out.payload = <<ser[i].msg.Body>>
            /\ ser[i].msg.attachments = <<>>
                   /\ ser[i].msg.Html \notin {None, ""} =>
                  /\ ser[i].out.ctype = <<"multipart", "/", "alternative">>
                  /\ Len(ser[i].out.parts) = 2
                  /\ ser[i].out.parts[1].ctype = TextPlain
                  /\ ser[i].out.parts[1].payload = <<ser[i].msg.Body>>
                  /\ ser[i].out.parts[2].ctype = TextHtml
                  /\ ser[i].out.parts[2].payload = <<ser[i].msg.Html>>
            /\ ser[i].msg.attachments # <<>> =>
                  /\ ser[i].out.ctype = <<"multipart", "/", "mixed">>
                  /\ Len(ser[i].out.parts) = 1 + Len(ser[i].msg.attachments)
                  /\ ser[i].out.parts[1].ctype = TextPlain
                  /\ ser[i].out.parts[1].payload = <<ser[i].msg.Body>>
                  /\ ser[i].out.parts[1].disposition = None
                  /\ \A j \in DOMAIN ser[i].msg.attachments :
                        /\ ser[i].out.parts[j + 1].disposition = "attachment"
                        /\ ser[i].out.parts[j + 1].payload =
                               FileBytes(ser[i].msg.attachments[j])
                  /\ \A j \in DOMAIN ser[i].out.parts :
                        ser[i].out.parts[j].ctype # TextHtml

\* C8 witness: all three shapes were built, the mixed one from a Message
\* that has Html set and two different attachments.
C8_Witness ==
    /\ ser # <<>>
    /\ ser[1].err = ""
    /\ Len(m.attachments) = 2
    /\ m.attachments[1] # m.attachments[2]
    /\ m.Html \notin {None, ""}

\* The email class that embeds a main type.
ExpectedClass(maintype) ==
    CASE maintype = "text" -> "MIMEText"
      [] maintype = "image" -> "MIMEImage"
      [] maintype = "audio" -> "MIMEAudio"
      [] OTHER -> "MIMEBase"

\* What C9 says of the part embedded for one path.
C9_PartOf(path, part) ==
    /\ part.disposition = "attachment"
    /\ part.filename = Basename(path)
    /\ "/" \notin Range(part.filename)
    /\ IF GuessType(path).ctype = NoType \/ GuessType(path).encoding # None
       THEN /\ part.ctype = OctetStream
            /\ part.cls = "MIMEBase"
            /\ part.cte = "base64"
       ELSE /\ part.ctype = GuessType(path).ctype
            /\ part.cls = ExpectedClass(GuessType(path).ctype[1])
            /\ part.cls = "MIMEBase" => part.cte = "base64"
    /\ path = PhotoJpg =>
          /\ part.cls = "MIMEImage"
          /\ part.ctype = <<"image", "/", "jpeg">>
          /\ part.filename = <<"photo", ".", "jpg">>
    /\ path = BlobXyz =>
          /\ part.cls = "MIMEBase"
          /\ part.cte = "base64"
          /\ part.filename = <<"blob", ".", "xyz">>
    /\ path = LogTxtGz => part.ctype = OctetStream

\* C9: the part embedded for an attachment follows from the type guessed
\* from its name: octet-stream when nothing is guessed or the guess reports
\* an encoding; a text, image or audio part with the guessed sub-type; a
\* base64 binary part otherwise; always with Content-Disposition attachment
\* and the base name of the path as filename.
C9_AttachmentParts ==
    \A i \in DOMAIN ser :
        ser[i].err = "" =>
            \A j \in DOMAIN ser[i].msg.attachments :
                C9_PartOf(ser[i].msg.attachments[j], ser[i].out.parts[j + 1])

\* C9 witness: a photo below a directory and a compressed text file were
\* embedded.
C9_Witness ==
    /\ ser # <<>>
    /\ ser[1].err = ""
    /\ m.attachments = <<PhotoJpg, LogTxtGz>>

----------------------------------------------------------------------------
\* Properties of Message.To (specification ToSpec).

\* Every address typed is complete: the raw string does not end in a
\* separator or in the blanks after one.
WellFormed == addrs[Len(addrs)] # <<>>

\* C7: reading To gives the addresses in the order typed, each without the
\* whitespace around it, joined by ", "; there is no ";" in it and no
\* whitespace at the ends of an address; the raw value stays as it was.
C7_Normalized ==
    toRead.done /\ WellFormed =>
        /\ toRead.val = Join(addrs, <<",", " ">>)
        /\ ";" \notin Range(toRead.val)
        /\ toRead.val[1] \notin Whitespace
        /\ toRead.val[Len(toRead.val)] \notin Whitespace
        /\ \A i \in DOMAIN toRead.val :
              toRead.val[i] = "," =>
                  /\ toRead.val[i - 1] \notin Whitespace
                  /\ toRead.val[i + 1] = " "
                  /\ toRead.val[i + 2] \notin Whitespace
        /\ m._to = toRead.raw

\* C7 witness: three addresses, separated by a ";" and a ",", with
\* whitespace around, were read.
C7_Witness ==
    /\ toRead.done
    /\ WellFormed
    /\ Len(addrs) = 3
    /\ {";", ",", " "} \subseteq Range(toRead.raw)

====
